---- MODULE Spec2Model ----
(***************************************************************************)
(* A model of c3dl (src/c3dl.py): the resumable transfer download_file,    *)
(* the two reconciliation passes download_relive and download_releases,    *)
(* the matcher find_matching_release and the cleanup pass                  *)
(* cleanup_relive_duplicates.                                              *)
(*                                                                         *)
(* Text (titles, file names) is a sequence of one-character strings.       *)
(* A file's content is a sequence of byte runs <<src, lo, hi>>: the bytes  *)
(* lo .. hi-1 of the object src.  Runs are kept merged, so two files hold  *)
(* the same bytes exactly when their run sequences are equal.              *)
(***************************************************************************)
EXTENDS Integers, Sequences, FiniteSets, TLC

VARIABLES
    fs,     \* the local file system: path <<dir, name>> |-> content, for the files that exist
    dl,     \* the frame of the download_file call in progress (pc = "idle": none)
    log,    \* what the current download_file call did so far, in order
    env,    \* the kinds of answer the remote side gives in this behaviour
    fs0,    \* the file system as it was when the current download_file call began
    args,   \* the command line: releases_only, relive_only, no_cleanup, dry_run
    feed,   \* the remote listings: the relive page and the releases podcast feed
    pass,   \* the frame of run_download_cycle and of the pass it is in
    cycles, \* how many download cycles were started
    calls,  \* the download_file calls of the current pass, in order
    procs,  \* the instances of main started for one congress, and its lock
    san     \* a call of sanitize_filename: its arguments and its result

caller == <<args, feed, pass, cycles, calls, procs, san>>

vars == <<fs, dl, log, env, fs0, caller>>

----------------------------------------------------------------------------
(* Bounds of the model *)

\* The length in bytes of every remote object.
TotalSize == 10000

\* The largest max_retries a direct call of download_file is given.
MaxRetriesBound == 3

(* Program constants *)

\* iter_content(chunk_size=8192)
ChunkSize == 8192

\* wait_time = 2 ** attempt * 5
BackoffBase == 5

\* max_retries: int = 3
DefaultMaxRetries == 3

----------------------------------------------------------------------------
(* Byte runs *)

Bytes(src, lo, hi) == IF lo < hi THEN << <<src, lo, hi>> >> ELSE <<>>

RECURSIVE FLen(_)
FLen(f) == IF f = <<>> THEN 0 ELSE (f[1][3] - f[1][2]) + FLen(Tail(f))

\* f followed by g, adjacent runs of one object merged.
FCat(f, g) ==
    IF g = <<>> THEN f
    ELSE IF f = <<>> THEN g
    ELSE LET a == f[Len(f)]
             b == g[1]
         IN  IF a[1] = b[1] /\ a[3] = b[2]
             THEN SubSeq(f, 1, Len(f) - 1) \o << <<a[1], a[2], b[3]>> >> \o Tail(g)
             ELSE f \o g

\* The first n bytes of f, and f without them.
RECURSIVE FTake(_, _)
FTake(f, n) ==
    IF f = <<>> \/ n <= 0 THEN <<>>
    ELSE LET r == f[1]
             k == r[3] - r[2]
         IN  IF k <= n THEN <<r>> \o FTake(Tail(f), n - k)
             ELSE << <<r[1], r[2], r[2] + n>> >>

RECURSIVE FDrop(_, _)
FDrop(f, n) ==
    IF f = <<>> \/ n <= 0 THEN f
    ELSE LET r == f[1]
             k == r[3] - r[2]
         IN  IF k <= n THEN FDrop(Tail(f), n - k)
             ELSE << <<r[1], r[2] + n, r[3]>> >> \o Tail(f)

----------------------------------------------------------------------------
(* The file system *)

Exists(p) == p \in DOMAIN fs

\* fs with p created or overwritten, and with p removed.
WriteFile(f, p, content) == [q \in (DOMAIN f) \cup {p} |-> IF q = p THEN content ELSE f[q]]

Unlink(f, p) == [q \in (DOMAIN f) \ {p} |-> f[q]]

\* Path.rename: the destination is replaced, the source name disappears.
Rename(f, from, to) ==
    [q \in ((DOMAIN f) \ {from}) \cup {to} |-> IF q = to THEN f[from] ELSE f[q]]

PartSuffix == <<".", "p", "a", "r", "t">>

\* output_path.with_suffix(output_path.suffix + '.part')
PartPath(p) == <<p[1], p[2] \o PartSuffix>>

----------------------------------------------------------------------------
(* Text: a sequence of one-character strings.  A character outside ASCII,
   or one that a string of the model cannot hold, is written by its code
   point, "U+00E4". *)

LowerLetters ==
    <<"a", "b", "c", "d", "e", "f", "g", "h", "i", "j", "k", "l", "m",
      "n", "o", "p", "q", "r", "s", "t", "u", "v", "w", "x", "y", "z">>

UpperLetters ==
    <<"A", "B", "C", "D", "E", "F", "G", "H", "I", "J", "K", "L", "M",
      "N", "O", "P", "Q", "R", "S", "T", "U", "V", "W", "X", "Y", "Z">>

Digits == {"0", "1", "2", "3", "4", "5", "6", "7", "8", "9"}

\* The characters outside ASCII that the model's texts use: a-umlaut,
\* A-umlaut, en dash, em dash; with the length of their UTF-8 encoding.
Utf8Len(c) ==
    IF c \in {"U+00E4", "U+00C4", "U+0085", "U+00A0"} THEN 2
    ELSE IF c \in {"U+2013", "U+2014"} THEN 3
    ELSE 1

Range(q) == {q[i] : i \in DOMAIN q}

\* str.lower, character by character.
Lower(c) ==
    IF c \in Range(UpperLetters)
    THEN LowerLetters[CHOOSE i \in DOMAIN UpperLetters : UpperLetters[i] = c]
    ELSE IF c = "U+00C4" THEN "U+00E4" ELSE c

\* \s, \w and [À-ſ] of the re module.  \s, like str.split(), takes
\* every character of str.isspace(): blank, tab, line feed, carriage return,
\* form feed, vertical tab, the separators U+001C to U+001F, next line
\* and no-break space among those below U+0100.
IsSpace(c) ==
    c \in {" ", "\t", "\n", "\r", "\f", "U+000B",
           "U+001C", "U+001D", "U+001E", "U+001F", "U+0085", "U+00A0"}

IsWord(c) ==
    c \in Range(LowerLetters) \cup Range(UpperLetters) \cup Digits
          \cup {"_", "U+00E4", "U+00C4"}

IsLatinExt(c) == c \in {"U+00E4", "U+00C4"}

RECURSIVE MapText(_, _)
MapText(Op(_), t) == IF t = <<>> THEN <<>> ELSE <<Op(Head(t))>> \o MapText(Op, Tail(t))

RECURSIVE FilterText(_, _)
FilterText(Keep(_), t) ==
    IF t = <<>> THEN <<>>
    ELSE (IF Keep(Head(t)) THEN <<Head(t)>> ELSE <<>>) \o FilterText(Keep, Tail(t))

\* The index of the last c in t, 0 when there is none (str.rfind, from 1).
LastIndex(t, c) ==
    IF \E i \in DOMAIN t : t[i] = c
    THEN CHOOSE i \in DOMAIN t : t[i] = c /\ \A j \in DOMAIN t : t[j] = c => j <= i
    ELSE 0

EndsWith(t, suffix) ==
    /\ Len(suffix) <= Len(t)
    /\ SubSeq(t, Len(t) - Len(suffix) + 1, Len(t)) = suffix

----------------------------------------------------------------------------
(* sanitize_filename *)

\* The class [\/:*?"<>|] of the pattern at line 125: in it \/ is an escaped
\* slash, so the class holds these eight characters and not the backslash.
InvalidChars == {"/", ":", "*", "?", "\"", "<", ">", "|"}

ReplaceInvalid(c) == IF c \in InvalidChars THEN "_" ELSE c

\* str.encode('utf-8'): byte i of the n bytes of character c is <<c, i, n>>.
RECURSIVE Utf8Encode(_)
Utf8Encode(t) ==
    IF t = <<>> THEN <<>>
    ELSE [i \in 1 .. Utf8Len(Head(t)) |-> <<Head(t), i, Utf8Len(Head(t))>>]
         \o Utf8Encode(Tail(t))

\* seq[:n] of Python: a negative n counts from the end.
SliceTo(q, n) ==
    IF n >= 0 THEN SubSeq(q, 1, IF n < Len(q) THEN n ELSE Len(q))
    ELSE SubSeq(q, 1, Len(q) + n)

\* while truncated and (truncated[-1] & 0xC0) == 0x80: drop the last byte.
RECURSIVE StripContinuation(_)
StripContinuation(b) ==
    IF b # <<>> /\ b[Len(b)][2] > 1
    THEN StripContinuation(SubSeq(b, 1, Len(b) - 1))
    ELSE b

\* bytes.decode('utf-8', errors='ignore'): the characters whose bytes are
\* all there, in order; bytes of an incomplete character are dropped.
RECURSIVE Utf8DecodeIgnore(_)
Utf8DecodeIgnore(b) ==
    IF b = <<>> THEN <<>>
    ELSE LET n == b[1][3]
         IN  IF /\ b[1][2] = 1
                /\ Len(b) >= n
                /\ \A i \in 1 .. n : b[i] = <<b[1][1], i, n>>
             THEN <<b[1][1]>> \o Utf8DecodeIgnore(SubSeq(b, n + 1, Len(b)))
             ELSE Utf8DecodeIgnore(Tail(b))

DefaultMaxBytes == 240

sanitize_filename(title, extension, max_bytes) ==
    LET filename        == MapText(ReplaceInvalid, title)
        available_bytes == max_bytes - Len(Utf8Encode(extension))
        encoded         == Utf8Encode(filename)
    IN  IF Len(encoded) > available_bytes
        THEN Utf8DecodeIgnore(StripContinuation(SliceTo(encoded, available_bytes - 3)))
             \o <<".", ".", ".">> \o extension
        ELSE filename \o extension

----------------------------------------------------------------------------
(* normalize_title *)

\* The components of a POSIX path: the text between slashes, the empty ones
\* and "." dropped.
RECURSIVE SplitOn(_, _, _)
SplitOn(t, c, cur) ==
    IF t = <<>> THEN <<cur>>
    ELSE IF Head(t) = c THEN <<cur>> \o SplitOn(Tail(t), c, <<>>)
    ELSE SplitOn(Tail(t), c, Append(cur, Head(t)))

PathParts(t) ==
    SelectSeq(SplitOn(t, "/", <<>>), LAMBDA part : part # <<>> /\ part # <<".">>)

\* Path(t).name, .suffix and .stem
PathName(t) ==
    LET parts == PathParts(t) IN IF parts = <<>> THEN <<>> ELSE parts[Len(parts)]

Suffix(name) ==
    LET i == LastIndex(name, ".")
    IN  IF 1 < i /\ i < Len(name) THEN SubSeq(name, i, Len(name)) ELSE <<>>

Stem(name) ==
    LET i == LastIndex(name, ".")
    IN  IF 1 < i /\ i < Len(name) THEN SubSeq(name, 1, i - 1) ELSE name

\* The number of whitespace characters at the start of t.
RECURSIVE LeadingSpaces(_)
LeadingSpaces(t) ==
    IF t # <<>> /\ IsSpace(Head(t)) THEN 1 + LeadingSpaces(Tail(t)) ELSE 0

\* \(\d{2}c\d\) at the start of t, case-insensitive.
TagAtStart(t) ==
    /\ Len(t) >= 6
    /\ t[1] = "("
    /\ t[2] \in Digits /\ t[3] \in Digits
    /\ t[4] \in {"c", "C"}
    /\ t[5] \in Digits
    /\ t[6] = ")"

\* re.sub(r'\s*\(\d{2}c\d\)\s*', '', name, flags=re.I)
RECURSIVE RemoveTags(_)
RemoveTags(t) ==
    IF t = <<>> THEN <<>>
    ELSE LET s    == LeadingSpaces(t)
             rest == SubSeq(t, s + 1, Len(t))
         IN  IF TagAtStart(rest)
             THEN LET after == SubSeq(rest, 7, Len(rest))
                  IN  RemoveTags(SubSeq(after, LeadingSpaces(after) + 1, Len(after)))
             ELSE <<Head(t)>> \o RemoveTags(Tail(t))

\* re.sub(r'[_\-–—]', ' ', name)
SeparatorToSpace(c) == IF c \in {"_", "-", "U+2013", "U+2014"} THEN " " ELSE c

\* re.sub(r'[^\w\sÀ-ſ]', '', name) keeps these.
KeptChar(c) == IsWord(c) \/ IsSpace(c) \/ IsLatinExt(c)

\* ' '.join(name.split())
RECURSIVE JoinWords(_, _)
JoinWords(t, started) ==
    IF t = <<>> THEN <<>>
    ELSE LET s == LeadingSpaces(t)
         IN  IF s = Len(t) THEN <<>>
             ELSE IF s > 0
                  THEN (IF started THEN <<" ">> ELSE <<>>)
                       \o JoinWords(SubSeq(t, s + 1, Len(t)), started)
                  ELSE <<Head(t)>> \o JoinWords(Tail(t), TRUE)

normalize_title(filename) ==
    LET name     == Stem(PathName(filename))
        untagged == RemoveTags(name)
        spaced   == MapText(SeparatorToSpace, untagged)
        cleaned  == FilterText(KeptChar, spaced)
        joined   == JoinWords(cleaned, FALSE)
    IN  MapText(Lower, joined)

----------------------------------------------------------------------------
(* difflib.SequenceMatcher(None, a, b).ratio() *)

\* The length of the common run of a from i and b from j, inside a[..ahi]
\* and b[..bhi].
RECURSIVE RunLen(_, _, _, _, _, _)
RunLen(a, b, i, j, ahi, bhi) ==
    IF i <= ahi /\ j <= bhi /\ a[i] = b[j]
    THEN 1 + RunLen(a, b, i + 1, j + 1, ahi, bhi)
    ELSE 0

\* The length of the common run that ends just before a[i] and b[j], inside
\* a[alo..] and b[blo..].
RECURSIVE RunLenBack(_, _, _, _, _, _)
RunLenBack(a, b, i, j, alo, blo) ==
    IF i > alo /\ j > blo /\ a[i - 1] = b[j - 1]
    THEN 1 + RunLenBack(a, b, i - 1, j - 1, alo, blo)
    ELSE 0

\* The length from which SequenceMatcher, made with autojunk left at its
\* default, drops the popular elements of b from its index.
AutojunkMin == 200

\* The popular elements of b: those that occur more than len(b) // 100 + 1
\* times in a b of AutojunkMin elements or more.
Popular(b) ==
    IF Len(b) < AutojunkMin THEN {}
    ELSE {c \in {b[j] : j \in 1 .. Len(b)} :
              Cardinality({j \in 1 .. Len(b) : b[j] = c}) > (Len(b) \div 100) + 1}

\* The length of the common run of a from i and b from j that the index of
\* b yields: it stops before an element in pop.
RECURSIVE IndexedRunLen(_, _, _, _, _, _, _)
IndexedRunLen(a, b, i, j, ahi, bhi, pop) ==
    IF i <= ahi /\ j <= bhi /\ a[i] = b[j] /\ b[j] \notin pop
    THEN 1 + IndexedRunLen(a, b, i + 1, j + 1, ahi, bhi, pop)
    ELSE 0

\* find_longest_match: the longest common block of a[alo..ahi] and
\* b[blo..bhi] without popular elements, of several the one that starts
\* earliest in a, then in b, and <<alo, blo, 0>> when there is none; the
\* block is then extended by equal elements, popular or not, to the left
\* and to the right.
LongestMatch(a, b, alo, ahi, blo, bhi) ==
    LET pop  == Popular(b)
        cand == {<<i, j, IndexedRunLen(a, b, i, j, ahi, bhi, pop)>> :
                     i \in alo .. ahi, j \in blo .. bhi}
        Better(x, y) ==
            \/ x[3] > y[3]
            \/ x[3] = y[3] /\ x[1] < y[1]
            \/ x[3] = y[3] /\ x[1] = y[1] /\ x[2] <= y[2]
        core == IF cand = {} THEN <<alo, blo, 0>>
                ELSE CHOOSE x \in cand : \A y \in cand : Better(x, y)
        best == IF core[3] = 0 THEN <<alo, blo, 0>> ELSE core
        left == RunLenBack(a, b, best[1], best[2], alo, blo)
        right == RunLen(a, b, best[1] + best[3], best[2] + best[3], ahi, bhi)
    IN  <<best[1] - left, best[2] - left, best[3] + left + right>>

\* The sum of the sizes of get_matching_blocks: the longest block, then the
\* same to its left and to its right.
RECURSIVE MatchCount(_, _, _, _, _, _)
MatchCount(a, b, alo, ahi, blo, bhi) ==
    IF alo > ahi \/ blo > bhi THEN 0
    ELSE LET m == LongestMatch(a, b, alo, ahi, blo, bhi)
         IN  IF m[3] = 0 THEN 0
             ELSE m[3]
                  + MatchCount(a, b, alo, m[1] - 1, blo, m[2] - 1)
                  + MatchCount(a, b, m[1] + m[3], ahi, m[2] + m[3], bhi)

\* ratio() >= num / den, where ratio() is 2.0 * matches / (len(a) + len(b))
\* and 1.0 for two empty texts.
RatioAtLeast(a, b, num, den) ==
    IF Len(a) + Len(b) = 0 THEN num <= den
    ELSE 2 * MatchCount(a, b, 1, Len(a), 1, Len(b)) * den >= num * (Len(a) + Len(b))

----------------------------------------------------------------------------
(* The remote side *)

\* How many bytes a silently truncated body lacks, and the length of the
\* body that comes with a status that is neither 200, 206 nor an error.
ShortBy == 50

PageLen == 512

Response(kind, status, cr, clen, body) ==
    [kind |-> kind, status |-> status, cr |-> cr, clen |-> clen, body |-> body]

\* The answers to one GET of url, sent with "Range: bytes=k-" when ranged.
\* cr is the total of the Content-Range header and clen the Content-Length
\* header; -1 and 0 stand for a header that is absent.
Responses(url, ranged, k) ==
    LET honoured == ranged /\ k < TotalSize
        from     == IF honoured THEN k ELSE 0
        status   == IF honoured THEN 206 ELSE 200
        cr       == IF honoured THEN TotalSize ELSE -1
        clen     == TotalSize - from
    IN  (IF "neterr" \in env
         THEN {Response("neterr", 0, -1, 0, <<>>)} ELSE {})
        \cup
        (IF "error" \in env
         THEN {Response("error", 503, -1, PageLen, Bytes(<<"page">>, 0, PageLen))} ELSE {})
        \cup
        (IF "range" \in env
         THEN {IF ranged /\ ~honoured
               THEN Response("range", 416, -1, PageLen, Bytes(<<"page">>, 0, PageLen))
               ELSE Response("range", status, cr, clen, Bytes(url, from, TotalSize))}
         ELSE {})
        \cup
        (IF "rangeNoTotal" \in env /\ honoured
         THEN {Response("rangeNoTotal", 206, -1, clen, Bytes(url, from, TotalSize))}
         ELSE {})
        \cup
        (IF "full" \in env
         THEN {Response("full", 200, -1, TotalSize, Bytes(url, 0, TotalSize))} ELSE {})
        \cup
        (IF "noLength" \in env
         THEN {Response("noLength", 200, -1, 0, Bytes(url, 0, TotalSize))} ELSE {})
        \cup
        (IF "short" \in env
         THEN {Response("short", status, cr, clen, Bytes(url, from, e)) :
                   e \in {TotalSize - ShortBy, ChunkSize}}
         ELSE {})
        \cup
        (IF "other" \in env
         THEN {Response("other", 204, -1, 0, <<>>),
               Response("other", 300, -1, PageLen, Bytes(<<"page">>, 0, PageLen))}
         ELSE {})

\* The declared sizes: none, exact, the largest
\* that a file of TotalSize bytes passes, and the smallest it fails.
ExpectedSizes ==
    {0, TotalSize, (TotalSize * 100) \div 99, (TotalSize * 100) \div 99 + 1}

\* The lengths a feed declares for an enclosure: none, and the two around
\* the tolerance.
DeclaredSizes == ExpectedSizes \ {TotalSize}

AllKinds ==
    {"neterr", "error", "range", "rangeNoTotal", "full", "noLength", "short", "other",
     "interrupt"}

----------------------------------------------------------------------------
(* download_file *)

Ev(e, a, n, k) == [ev |-> e, attempt |-> a, n |-> n, kind |-> k]

IdleFrame ==
    [pc |-> "idle", url |-> <<>>, output_path |-> <<>>, expected_size |-> 0,
     max_retries |-> 0, attempt |-> 0, status |-> 0, resume_pos |-> 0, total_size |-> 0,
     body |-> <<>>, result |-> FALSE]

\* for attempt in range(max_retries): the frame on entry.
Enter(url, output_path, expected_size, max_retries) ==
    [IdleFrame EXCEPT !.pc = IF max_retries > 0 THEN "attempt" ELSE "returned",
                      !.url = url, !.output_path = output_path,
                      !.expected_size = expected_size, !.max_retries = max_retries]

EnterLog(max_retries) ==
    IF max_retries > 0 THEN <<>> ELSE <<Ev("return", 0, 0, "false")>>

\* resume_pos = part_path.stat().st_size if the .part file exists, else 0
\* Mutant: the length of the .part file is not read; the range starts at 0.
ResumePos_Zero(f, part) == 0

ResumePos(f, part) == IF part \in DOMAIN f THEN FLen(f[part]) ELSE 0

\* requests' raise_for_status raises for the statuses 400..599.
RaisesForStatus(status) == 400 <= status /\ status < 600

\* The total size the response's headers give.
HeaderTotal(r, resume_pos) ==
    IF r.status = 206
    THEN IF r.cr >= 0 THEN r.cr ELSE resume_pos + r.clen
    ELSE IF r.status = 200 THEN r.clen ELSE 0

\* Mutant: the .part file is always opened for writing from scratch.
OpenMode_AlwaysTruncate(ranged, resume_pos, status) == "wb"

\* Mutant: an existing .part file is appended to whatever the answer is.
OpenMode_AlwaysAppend(ranged, resume_pos, status) == IF ranged THEN "ab" ELSE "wb"

\* 'ab' when a .part file exists, unless the answer is 200 to a nonzero offset.
OpenMode(ranged, resume_pos, status) ==
    IF ranged /\ ~(status = 200 /\ resume_pos > 0) THEN "ab" ELSE "wb"

\* resume_pos as passed on after the status was looked at.
EffectivePos(resume_pos, status) ==
    IF status = 200 /\ resume_pos > 0 THEN 0 ELSE resume_pos

\* open(part_path, mode): 'wb' creates or truncates, 'ab' creates or keeps.
OpenPart(f, part, mode) ==
    IF mode = "wb" \/ part \notin DOMAIN f THEN WriteFile(f, part, <<>>) ELSE f

\* check_size = expected_size if expected_size > 0 else total_size
CheckSize(expected_size, total_size) ==
    IF expected_size > 0 THEN expected_size ELSE total_size

\* Mutant: a tolerance of 10% instead of 1%.
SizeOk_Tolerance90(actual_size, check_size) ==
    ~(check_size > 0 /\ actual_size * 100 < check_size * 90)

\* not (check_size > 0 and actual_size < check_size * 0.99)
SizeOk(actual_size, check_size) ==
    ~(check_size > 0 /\ actual_size * 100 < check_size * 99)

\* wait_time = 2 ** attempt * 5
BackoffWait(attempt) == (2 ^ attempt) * BackoffBase

\* Mutant: the except clause sleeps after the last attempt too.
WaitsAfter_AlsoLast(kind, attempt, max_retries) ==
    IF kind # "size"
    THEN <<Ev("wait", attempt, BackoffWait(attempt), kind)>>
    ELSE <<>>

\* The waits of the handler that ends a failed attempt: the except clause
\* sleeps short of the last attempt; a size mismatch goes on with `continue`.
WaitsAfter(kind, attempt, max_retries) ==
    IF kind # "size" /\ attempt < max_retries - 1
    THEN <<Ev("wait", attempt, BackoffWait(attempt), kind)>>
    ELSE <<>>

\* Mutant: the loop gives up one attempt early.
AfterFailure_OneShort(d) ==
    IF d.attempt + 2 < d.max_retries
    THEN [d EXCEPT !.pc = "attempt", !.attempt = @ + 1, !.body = <<>>]
    ELSE [d EXCEPT !.pc = "returned", !.result = FALSE, !.body = <<>>]

\* The frame and the log after attempt d.attempt failed: the next attempt,
\* or the return of False when the loop is exhausted.
AfterFailure(d) ==
    IF d.attempt + 1 < d.max_retries
    THEN [d EXCEPT !.pc = "attempt", !.attempt = @ + 1, !.body = <<>>]
    ELSE [d EXCEPT !.pc = "returned", !.result = FALSE, !.body = <<>>]

FailureLog(d, kind) ==
    <<Ev("fail", d.attempt, 0, kind)>>
    \o WaitsAfter(kind, d.attempt, d.max_retries)
    \o (IF d.attempt + 1 < d.max_retries THEN <<>>
        ELSE <<Ev("return", d.attempt, 0, "false")>>)

RequestEv(d, ranged, pos, r) ==
    Ev("request", d.attempt, IF ranged THEN pos ELSE -1, r.kind)

\* An attempt whose request raises: requests.get itself, or raise_for_status.
RequestFails ==
    /\ dl.pc = "attempt"
    /\ LET part   == PartPath(dl.output_path)
           ranged == Exists(part)
           pos    == ResumePos(fs, part)
       IN  \E r \in Responses(dl.url, ranged, pos) :
             /\ r.kind = "neterr" \/ (r.status \notin {200, 206} /\ RaisesForStatus(r.status))
             /\ log' = log \o <<RequestEv(dl, ranged, pos, r)>>
                           \o FailureLog(dl, IF r.kind = "neterr" THEN "neterr" ELSE "status")
             /\ dl' = AfterFailure([dl EXCEPT !.status = r.status])
    /\ UNCHANGED <<fs, env, fs0, caller>>

\* An attempt whose request is answered and whose .part file is opened.
RequestStreams ==
    /\ dl.pc = "attempt"
    /\ LET part   == PartPath(dl.output_path)
           ranged == Exists(part)
           pos    == ResumePos(fs, part)
       IN  \E r \in Responses(dl.url, ranged, pos) :
             /\ r.kind # "neterr"
             /\ r.status \in {200, 206} \/ ~RaisesForStatus(r.status)
             /\ log' = log \o <<RequestEv(dl, ranged, pos, r)>>
             /\ fs' = OpenPart(fs, part, OpenMode(ranged, pos, r.status))
             /\ dl' = [dl EXCEPT !.pc = "stream",
                                 !.status = r.status,
                                 !.resume_pos = EffectivePos(pos, r.status),
                                 !.total_size = HeaderTotal(r, pos),
                                 !.body = r.body]
    /\ UNCHANGED <<env, fs0, caller>>

\* for chunk in r.iter_content(chunk_size=8192): f.write(chunk)
StreamChunk ==
    /\ dl.pc = "stream"
    /\ dl.body # <<>>
    /\ LET part == PartPath(dl.output_path)
       IN  fs' = WriteFile(fs, part, FCat(fs[part], FTake(dl.body, ChunkSize)))
    /\ dl' = [dl EXCEPT !.body = FDrop(@, ChunkSize)]
    /\ UNCHANGED <<log, env, fs0, caller>>

\* The connection breaks while the body is read: iter_content raises.
StreamRaises ==
    /\ dl.pc = "stream"
    /\ dl.body # <<>>
    /\ "neterr" \in env
    /\ log' = log \o FailureLog(dl, "stream")
    /\ dl' = AfterFailure(dl)
    /\ UNCHANGED <<fs, env, fs0, caller>>

\* The stream is complete: verify the size; rename and return True, or retry.
Verify ==
    /\ dl.pc = "stream"
    /\ dl.body = <<>>
    /\ LET part        == PartPath(dl.output_path)
           actual_size == FLen(fs[part])
           check_size  == CheckSize(dl.expected_size, dl.total_size)
       IN  IF SizeOk(actual_size, check_size)
           THEN /\ fs' = Rename(fs, part, dl.output_path)
                /\ log' = log \o <<Ev("rename", dl.attempt, actual_size, "true"),
                                   Ev("return", dl.attempt, 1, "true")>>
                /\ dl' = [dl EXCEPT !.pc = "returned", !.result = TRUE]
           ELSE /\ fs' = fs
                /\ log' = log \o FailureLog(dl, "size")
                /\ dl' = AfterFailure(dl)
    /\ UNCHANGED <<env, fs0, caller>>

\* KeyboardInterrupt is no Exception: it leaves download_file at once, and
\* nothing of the call but what is on disk remains.
Interrupt ==
    /\ dl.pc \in {"attempt", "stream"}
    /\ "interrupt" \in env
    /\ dl' = [Enter(dl.url, dl.output_path, dl.expected_size, dl.max_retries)
                 EXCEPT !.pc = "interrupted"]
    /\ log' = log \o <<Ev("interrupt", dl.attempt, 0, "")>>
    /\ UNCHANGED <<fs, env, fs0, caller>>

----------------------------------------------------------------------------
(* find_matching_release and cleanup_relive_duplicates *)

ReliveDir == "relive"

ReleasesDir == "releases"

Mp4 == <<".", "m", "p", "4">>

MediaSuffixes ==
    {Mp4, <<".", "w", "e", "b", "m">>, <<".", "m", "p", "3">>, <<".", "o", "p", "u", "s">>}

\* directory.glob("*") and directory.glob("*.mp4"): the names in a directory.
Glob(f, dir) == {p \in DOMAIN f : p[1] = dir}

GlobMp4(f, dir) == {p \in Glob(f, dir) : EndsWith(p[2], Mp4)}

\* The release files find_matching_release accepts for relive_title: media
\* files whose normalized name is at least 85% similar.  The function
\* returns the first of them in directory order, None when there is none.
MatchingReleases(relive_title, f) ==
    {p \in Glob(f, ReleasesDir) :
        /\ MapText(Lower, Suffix(p[2])) \in MediaSuffixes
        /\ RatioAtLeast(normalize_title(relive_title), normalize_title(p[2]), 85, 100)}

\* Mutant: no file of the releases directory is ever accepted.
find_matching_release_Never(relive_title, f) == FALSE

\* find_matching_release(...) is not None
find_matching_release(relive_title, f) == MatchingReleases(relive_title, f) # {}

\* list(config.relive_dir.glob("*.mp4"))
ReliveCandidates(f) == GlobMp4(f, ReliveDir)

\* The loop of cleanup_relive_duplicates over the files still to visit:
\* the file system and the count it ends with.
RECURSIVE CleanupLoop(_, _, _)
CleanupLoop(f, todo, removed) ==
    IF todo = {} THEN [fs |-> f, removed |-> removed]
    ELSE LET relive_file == CHOOSE p \in todo : TRUE
         IN  IF find_matching_release(relive_file[2], f)
             THEN CleanupLoop(Unlink(f, relive_file), todo \ {relive_file}, removed + 1)
             ELSE CleanupLoop(f, todo \ {relive_file}, removed)

cleanup_relive_duplicates(f) == CleanupLoop(f, ReliveCandidates(f), 0)

----------------------------------------------------------------------------
(* download_relive, download_releases, run_download_cycle *)

\* The largest number of download cycles (runs of the program included).
MaxCycles == 2

\* config.file_extension of the default quality preset, "hd".
FileExtension == Mp4

Item(id, title, url, size) == [id |-> id, title |-> title, url |-> url, size |-> size]

IdlePass ==
    [pc |-> "boot", src |-> "", idx |-> 0, items |-> <<>>, downloads |-> <<>>,
     downloaded |-> 0, already_have |-> 0, incomplete |-> 0, has_release |-> 0,
     removed |-> 0, returns |-> <<>>, cleaned |-> {}, raised |-> ""]

NoArgs ==
    [releases_only |-> FALSE, relive_only |-> FALSE, no_cleanup |-> FALSE,
     dry_run |-> FALSE]

\* No instance of main is looked at: the cycles run in one process.
NoProcs == <<>>

\* No call of sanitize_filename is looked at by itself.
NoSan == <<>>

NoFeed == [relive |-> <<>>, releases |-> <<>>]

\* sorted(relive_ids): the ids are strings of digits, compared as strings.
DigitValue(c) == CHOOSE v \in 0 .. 9 : c = <<"0", "1", "2", "3", "4", "5", "6", "7", "8", "9">>[v + 1]

RECURSIVE TextLess(_, _)
TextLess(a, b) ==
    IF b = <<>> THEN FALSE
    ELSE IF a = <<>> THEN TRUE
    ELSE IF Head(a) = Head(b) THEN TextLess(Tail(a), Tail(b))
    ELSE DigitValue(Head(a)) < DigitValue(Head(b))

RECURSIVE Sorted(_)
Sorted(S) ==
    IF S = {} THEN <<>>
    ELSE LET m == CHOOSE x \in S : \A y \in S \ {x} : TextLess(x, y)
         IN  <<m>> \o Sorted(S \ {m})

\* f"{config.relive_cdn_base}/{relive_id}/muxed.mp4"
ReliveUrl(relive_id) == <<"cdn">> \o relive_id

\* The title get_relive_title returns for an id of the page; <<>> stands
\* for None (the detail page has no "Relive:" title, or its request failed).
ReliveTitle(relive_id) ==
    LET i == CHOOSE i \in DOMAIN feed.relive : feed.relive[i].id = relive_id
    IN  feed.relive[i].title

\* Mutant: the cleanup runs after the last pass whatever the arguments.
AfterPass_AlwaysCleanup(p) ==
    IF p.src = "relive" /\ ~args.relive_only
    THEN [p EXCEPT !.pc = "fetch", !.src = "releases"]
    ELSE [p EXCEPT !.pc = "cleanup"]

\* Where the cycle goes when the pass p.src has returned.
AfterPass(p) ==
    IF p.src = "relive"
    THEN IF ~args.relive_only
         THEN [p EXCEPT !.pc = "fetch", !.src = "releases"]
         ELSE [p EXCEPT !.pc = "done"]
    ELSE IF ~args.relive_only /\ ~args.no_cleanup
         THEN [p EXCEPT !.pc = "cleanup"]
         ELSE [p EXCEPT !.pc = "done"]

\* Mutant: an exception of a pass is not caught and ends the cycle.
Return_Propagate(p, value, error) ==
    IF error THEN [p EXCEPT !.pc = "stopped", !.raised = "Exception"]
    ELSE AfterPass([p EXCEPT !.returns =
                        Append(@, [src |-> p.src, value |-> value, error |-> error])])

\* Mutant: a pass returns 0 whatever it downloaded.
Return_Zero(p, value, error) ==
    AfterPass([p EXCEPT !.returns =
                   Append(@, [src |-> p.src, value |-> 0, error |-> error])])

\* The pass p.src returns value to run_download_cycle, which adds it to its
\* total; error says that the pass caught an exception and reported it.
Return(p, value, error) ==
    AfterPass([p EXCEPT !.returns =
                   Append(@, [src |-> p.src, value |-> value, error |-> error])])

\* Where a pass goes once item p.idx was scanned: to the next item, to the
\* downloads, or back (`if not downloads: return 0`).
AfterScan(p) ==
    IF p.idx < Len(p.items) THEN [p EXCEPT !.idx = @ + 1]
    ELSE IF p.downloads = <<>> THEN Return(p, 0, FALSE)
    ELSE [p EXCEPT !.pc = "download", !.idx = 1]

\* run_download_cycle is entered: by the loop of main, or by a new run of
\* the program after the last one was interrupted.
StartCycle ==
    /\ pass.pc \in {"boot", "done", "stopped"}
    /\ cycles < MaxCycles
    /\ cycles' = cycles + 1
    /\ pass' = IF ~args.releases_only
               THEN [IdlePass EXCEPT !.pc = "fetch", !.src = "relive",
                                     !.cleaned = pass.cleaned]
               ELSE [IdlePass EXCEPT !.pc = "fetch", !.src = "releases",
                                     !.cleaned = pass.cleaned]
    /\ calls' = <<>>
    /\ UNCHANGED <<fs, dl, log, env, fs0, args, feed, procs, san>>

\* The frame of a pass as it is entered: `downloaded = 0`, and nothing is
\* listed, queued or counted yet.
NewPass(p) ==
    [p EXCEPT !.idx = 0, !.items = <<>>, !.downloads = <<>>,
              !.downloaded = 0, !.already_have = 0, !.incomplete = 0,
              !.has_release = 0]

BeginPass(p, items) ==
    IF items = <<>> THEN Return(NewPass(p), 0, FALSE)
    ELSE [NewPass(p) EXCEPT !.pc = "scan", !.idx = 1, !.items = items]

\* download_relive up to the scan: the page is fetched and the ids are
\* collected into a set and sorted.
FetchRelive ==
    /\ pass.pc = "fetch" /\ pass.src = "relive"
    /\ pass' = BeginPass(pass,
                   [i \in DOMAIN Sorted({feed.relive[j].id : j \in DOMAIN feed.relive})
                      |-> LET id == Sorted({feed.relive[j].id : j \in DOMAIN feed.relive})[i]
                          IN  Item(id, <<>>, ReliveUrl(id), 0)])
    /\ calls' = <<>>
    /\ UNCHANGED <<fs, dl, log, env, fs0, args, feed, cycles, procs, san>>

\* download_releases up to the scan: the feed is fetched; each enclosure
\* carries the length the feed declares this time.
FetchReleases ==
    /\ pass.pc = "fetch" /\ pass.src = "releases"
    /\ \E size \in DeclaredSizes :
         pass' = BeginPass(pass,
                     [i \in DOMAIN feed.releases |->
                         [feed.releases[i] EXCEPT !.size = size]])
    /\ calls' = <<>>
    /\ UNCHANGED <<fs, dl, log, env, fs0, args, feed, cycles, procs, san>>

\* The request for a listing fails, or the listing cannot be parsed: the
\* exception is caught at the end of the pass, which returns 0.
FetchFails ==
    /\ pass.pc = "fetch"
    /\ "neterr" \in env
    /\ pass' = Return(NewPass(pass), 0, TRUE)
    /\ calls' = <<>>
    /\ UNCHANGED <<fs, dl, log, env, fs0, args, feed, cycles, procs, san>>

Queued(item, title, output_path) ==
    [id |-> item.id, title |-> title, url |-> item.url, size |-> item.size,
     output_path |-> output_path]

\* Mutant: the scan does not look for a matching release.
ReliveDecision_NoMatch(f, title) ==
    IF <<ReliveDir, sanitize_filename(title, Mp4, DefaultMaxBytes)>> \in DOMAIN f
    THEN "have"
    ELSE "download"

\* What the scan of download_relive decides for a title:
\* "have", "release" or "download".
ReliveDecision(f, title) ==
    IF <<ReliveDir, sanitize_filename(title, Mp4, DefaultMaxBytes)>> \in DOMAIN f
    THEN "have"
    ELSE IF find_matching_release(title, f) THEN "release" ELSE "download"

\* One round of the scan loop of download_relive.
ScanRelive ==
    /\ pass.pc = "scan" /\ pass.src = "relive"
    /\ LET item == pass.items[pass.idx]
       IN  \E title \in {ReliveTitle(item.id)} :
             LET output_path == <<ReliveDir, sanitize_filename(title, Mp4, DefaultMaxBytes)>>
                 decision    == ReliveDecision(fs, title)
             IN  pass' =
                   IF title = <<>> THEN AfterScan(pass)
                   ELSE IF decision = "have"
                        THEN AfterScan([pass EXCEPT !.already_have = @ + 1])
                   ELSE IF decision = "release"
                        THEN AfterScan([pass EXCEPT !.has_release = @ + 1])
                   ELSE AfterScan([pass EXCEPT
                            !.downloads = Append(@, Queued(item, title, output_path))])
    /\ UNCHANGED <<fs, dl, log, env, fs0, args, feed, cycles, calls, procs, san>>

\* Mutant: the size is compared without the 1% tolerance.
ReleaseDecision_Exact(f, output_path, size) ==
    IF output_path \in DOMAIN f
    THEN IF size > 0 /\ FLen(f[output_path]) < size
         THEN "incomplete"
         ELSE "have"
    ELSE "download"

\* What the scan of download_releases decides for the file at a target
\* path: "have", "incomplete" or "download".
ReleaseDecision(f, output_path, size) ==
    IF output_path \in DOMAIN f
    THEN IF size > 0 /\ FLen(f[output_path]) * 100 < size * 99
         THEN "incomplete"
         ELSE "have"
    ELSE "download"

\* One round of the scan loop of download_releases.
ScanRelease ==
    /\ pass.pc = "scan" /\ pass.src = "releases"
    /\ LET item        == pass.items[pass.idx]
           output_path == <<ReleasesDir,
                            sanitize_filename(item.title, FileExtension, DefaultMaxBytes)>>
           decision    == ReleaseDecision(fs, output_path, item.size)
       IN  IF item.url = <<>>
           THEN pass' = AfterScan(pass) /\ fs' = fs
           ELSE IF decision = "have"
           THEN pass' = AfterScan([pass EXCEPT !.already_have = @ + 1]) /\ fs' = fs
           ELSE /\ fs' = IF decision = "incomplete" THEN Unlink(fs, output_path) ELSE fs
                /\ pass' = AfterScan([pass EXCEPT
                               !.incomplete = IF decision = "incomplete" THEN @ + 1 ELSE @,
                               !.downloads = Append(@, Queued(item, item.title, output_path))])
    /\ UNCHANGED <<dl, log, env, fs0, args, feed, cycles, calls, procs, san>>

\* size = int(enclosure.get('length', 0)) raises for a length that is no
\* number, whether the enclosure has a url or not: the scan ends, the exception is caught at the end of the pass,
\* which returns 0.
ScanRaises ==
    /\ pass.pc = "scan" /\ pass.src = "releases"
    /\ "badlength" \in env
    /\ pass' = Return(pass, 0, TRUE)
    /\ UNCHANGED <<fs, dl, log, env, fs0, args, feed, cycles, calls, procs, san>>

\* download_file(...) is called for the next queued item.
CallDownload ==
    /\ pass.pc = "download"
    /\ dl.pc = "idle"
    /\ LET d == pass.downloads[pass.idx]
       IN  /\ dl' = Enter(d.url, d.output_path, d.size, DefaultMaxRetries)
           /\ calls' = Append(calls, [idx |-> pass.idx, output_path |-> d.output_path,
                                      final |-> Exists(d.output_path),
                                      done |-> FALSE, result |-> FALSE])
    /\ log' = <<>>
    /\ fs0' = fs
    /\ UNCHANGED <<fs, env, args, feed, pass, cycles, procs, san>>

\* Mutant: the loop over the queue ends with the first transfer that fails.
AfterDownload_StopOnFailure(p, result) ==
    IF result /\ p.idx < Len(p.downloads) THEN [p EXCEPT !.idx = @ + 1]
    ELSE Return(p, p.downloaded, FALSE)

\* The loop over the queue after download_file returned result for item
\* p.idx: the next item, or `return downloaded` after the last.
AfterDownload(p, result) ==
    IF p.idx < Len(p.downloads) THEN [p EXCEPT !.idx = @ + 1]
    ELSE Return(p, p.downloaded, FALSE)

\* download_file has returned: `downloaded += 1` on True; the loop goes on
\* and the pass returns after the last item.
ReturnDownload ==
    /\ pass.pc = "download"
    /\ dl.pc = "returned"
    /\ pass' = AfterDownload([pass EXCEPT !.downloaded = IF dl.result THEN @ + 1 ELSE @],
                             dl.result)
    /\ calls' = [calls EXCEPT ![Len(calls)].done = TRUE, ![Len(calls)].result = dl.result]
    /\ dl' = IdleFrame
    /\ log' = <<>>
    /\ UNCHANGED <<fs, env, fs0, args, feed, cycles, procs, san>>

\* KeyboardInterrupt leaves the pass and the cycle; the program ends.
Abort ==
    /\ pass.pc = "download"
    /\ dl.pc = "interrupted"
    /\ pass' = [pass EXCEPT !.pc = "stopped", !.raised = "KeyboardInterrupt"]
    /\ dl' = IdleFrame
    /\ log' = <<>>
    /\ UNCHANGED <<fs, env, fs0, args, feed, cycles, calls, procs, san>>

\* Ctrl+C while the cycle is outside download_file: in the request of a
\* listing or of a title page, in a scan, between two calls of
\* download_file, in the cleanup.  KeyboardInterrupt is no Exception: no
\* pass catches it, it leaves the pass and the cycle at once.
InterruptPass ==
    /\ pass.pc \in {"fetch", "scan", "download", "cleanup"}
    /\ dl.pc = "idle"
    /\ "interrupt" \in env
    /\ pass' = [pass EXCEPT !.pc = "stopped", !.raised = "KeyboardInterrupt"]
    /\ UNCHANGED <<fs, dl, log, env, fs0, args, feed, cycles, calls, procs, san>>

\* cleaned = cleanup_relive_duplicates(config), after download_releases.
Cleanup ==
    /\ pass.pc = "cleanup"
    /\ LET r == cleanup_relive_duplicates(fs)
       IN  /\ fs' = r.fs
           /\ pass' = [pass EXCEPT !.pc = "done", !.removed = r.removed,
                                   !.cleaned = @ \cup ((DOMAIN fs) \ DOMAIN r.fs)]
    /\ UNCHANGED <<dl, log, env, fs0, args, feed, cycles, calls, procs, san>>

----------------------------------------------------------------------------
(* One call of download_file, from every state it can be called in *)

UrlDL == <<"u">>

TargetDL == <<"releases", <<"a", ".", "m", "p", "4">>>>

\* What an earlier run may have left as the .part file.
InitialParts ==
    {<<>>, Bytes(UrlDL, 0, ChunkSize), Bytes(<<"old">>, 0, ChunkSize),
     Bytes(UrlDL, 0, TotalSize)}

InitDL ==
    /\ \E havePart \in BOOLEAN, content \in InitialParts :
         fs = IF havePart
              THEN [p \in {PartPath(TargetDL)} |-> content]
              ELSE [p \in {} |-> <<>>]
    /\ fs0 = fs
    /\ \E e \in ExpectedSizes, m \in 1 .. MaxRetriesBound :
         /\ dl = Enter(UrlDL, TargetDL, e, m)
         /\ log = EnterLog(m)
    /\ env = AllKinds
    /\ args = NoArgs
    /\ feed = NoFeed
    /\ pass = [IdlePass EXCEPT !.pc = "direct"]
    /\ cycles = 0
    /\ calls = <<>>
    /\ procs = NoProcs
    /\ san = NoSan

NextDL ==
    \/ RequestFails
    \/ RequestStreams
    \/ StreamChunk
    \/ StreamRaises
    \/ Verify
    \/ Interrupt

SpecDL == InitDL /\ [][NextDL]_vars

----------------------------------------------------------------------------
(* Download cycles over empty output directories *)

Txt_KeyNote == <<"K", "e", "y", " ", "N", "o", "t", "e">>

Txt_Intro == <<"I", "n", "t", "r", "o">>

Txt_KeynoteTag == <<"K", "e", "y", "n", "o", "t", "e", " ", "(", "3", "9", "c", "3", ")">>

Txt_QSlashA == <<"Q", "/", "A">>

Txt_QColonA == <<"Q", ":", "A">>

\* The listings of the remote side: the relive page (its ids in page order,
\* each with the title of its detail page) and the releases feed.
Feeds ==
    {[relive   |-> <<Item(<<"9">>, Txt_KeyNote, <<>>, 0), Item(<<"1", "0">>, <<>>, <<>>, 0)>>,
      releases |-> <<Item(<<>>, Txt_KeynoteTag, <<"r", "1">>, 0),
                     Item(<<>>, Txt_Intro, <<>>, 0)>>],
     [relive   |-> <<Item(<<"7">>, Txt_QSlashA, <<>>, 0), Item(<<"8">>, Txt_QSlashA, <<>>, 0)>>,
      releases |-> <<Item(<<>>, Txt_QSlashA, <<"r", "2">>, 0),
                     Item(<<>>, Txt_QColonA, <<"r", "3">>, 0)>>],
     [relive   |-> <<Item(<<"9">>, Txt_Intro, <<>>, 0), Item(<<"1", "0">>, Txt_KeyNote, <<>>, 0)>>,
      releases |-> <<>>]}

ArgSets ==
    {NoArgs,
     [NoArgs EXCEPT !.releases_only = TRUE],
     [NoArgs EXCEPT !.relive_only = TRUE],
     [NoArgs EXCEPT !.no_cleanup = TRUE],
     [NoArgs EXCEPT !.dry_run = TRUE]}

CycleKinds == {"neterr", "range", "interrupt", "badlength"}

InitCycle ==
    /\ fs = [p \in {} |-> <<>>]
    /\ fs0 = fs
    /\ dl = IdleFrame
    /\ log = <<>>
    /\ env = CycleKinds
    /\ args \in ArgSets
    /\ feed \in Feeds
    /\ pass = IdlePass
    /\ cycles = 0
    /\ calls = <<>>
    /\ procs = NoProcs
    /\ san = NoSan

NextCycle ==
    \/ StartCycle
    \/ FetchRelive
    \/ FetchReleases
    \/ FetchFails
    \/ ScanRelive
    \/ ScanRelease
    \/ ScanRaises
    \/ CallDownload
    \/ RequestFails
    \/ RequestStreams
    \/ StreamChunk
    \/ StreamRaises
    \/ Verify
    \/ Interrupt
    \/ ReturnDownload
    \/ Abort
    \/ InterruptPass
    \/ Cleanup

SpecCycle == InitCycle /\ [][NextCycle]_vars

----------------------------------------------------------------------------
(* Claims about one call of download_file (SpecDL) *)

LogIdx(e) == {i \in DOMAIN log : log[i].ev = e}

NumRequests == Cardinality(LogIdx("request"))

RECURSIVE SumWaits(_)
SumWaits(l) ==
    IF l = <<>> THEN 0
    ELSE (IF l[1].ev = "wait" THEN l[1].n ELSE 0) + SumWaits(Tail(l))

ReturnedFalse == dl.pc = "returned" /\ ~dl.result

ReturnedTrue == dl.pc = "returned" /\ dl.result

\* Every failure of the call so far was an exception (no size mismatch).
OnlyRaised == \A i \in LogIdx("fail") : log[i].kind \in {"neterr", "status", "stream"}

\* C1: a file exists under the final path only once download_file has
\* returned True, the .part name is gone with it (a rename), and the file's
\* length is at least 99% of the check size: expected_size if it is nonzero,
\* else the total the headers gave.  While the call runs, and after an
\* interrupt at any step, nothing is visible under the final name; True is
\* returned only with the final file in place.
C1_FinalOnlyByVerifiedRename ==
    LET out   == dl.output_path
        check == IF dl.expected_size # 0 THEN dl.expected_size ELSE dl.total_size
    IN  /\ Exists(out) =>
              /\ ReturnedTrue
              /\ ~Exists(PartPath(out))
              /\ FLen(fs[out]) * 100 >= check * 99
              /\ log[Len(log) - 1].ev = "rename"
              /\ log[Len(log) - 1].n = FLen(fs[out])
        /\ dl.result => Exists(out)

\* A file shorter than its check size, accepted by the 1% tolerance.
C1_Witness ==
    /\ ReturnedTrue
    /\ Exists(dl.output_path)
    /\ dl.expected_size > 0
    /\ FLen(fs[dl.output_path]) < dl.expected_size

\* C2 as stated: when every attempt failed, exactly max_retries requests
\* were issued, False is returned, a .part file is present and the final
\* path was not created.
C2_PartAlwaysPresent ==
    ReturnedFalse =>
        /\ NumRequests = dl.max_retries
        /\ Exists(PartPath(dl.output_path))
        /\ ~Exists(dl.output_path)

\* C2 amended: when every attempt failed, exactly max_retries requests were
\* issued, False is returned, the final path was not created, and a .part
\* file is present exactly when one existed before the call or some attempt
\* got as far as opening it (its failure came while streaming or verifying).
C2_PartKeptIfAny ==
    ReturnedFalse =>
        /\ NumRequests = dl.max_retries
        /\ ~Exists(dl.output_path)
        /\ Exists(PartPath(dl.output_path)) <=>
              \/ PartPath(dl.output_path) \in DOMAIN fs0
              \/ \E i \in LogIdx("fail") : log[i].kind \in {"stream", "size"}

\* Three failed attempts that left a .part file where none was before.
C2_Witness ==
    /\ ReturnedFalse
    /\ dl.max_retries = 3
    /\ PartPath(dl.output_path) \notin DOMAIN fs0
    /\ Exists(PartPath(dl.output_path))

\* C3 as stated: every failed attempt short of the last one is followed, in
\* the call's log, by a wait of 5 * 2^attempt seconds, whatever the failure.
C3_BackoffAfterEveryFailure ==
    \A i \in LogIdx("fail") :
        log[i].attempt < dl.max_retries - 1 =>
            /\ i < Len(log)
            /\ log[i + 1].ev = "wait"
            /\ log[i + 1].n = 5 * (2 ^ log[i].attempt)

\* C4 as stated: with max_retries = 3 and every attempt raising, the waits
\* of the call add up to 5 + 10 + 20 = 35 seconds.
C4_TotalWait35 ==
    (ReturnedFalse /\ dl.max_retries = 3 /\ OnlyRaised) => SumWaits(log) = 35

\* C4 amended: with max_retries = 3 and every attempt raising, the call
\* waits 5 seconds after attempt 0 and 10 seconds after attempt 1 and does
\* not wait after attempt 2: 15 seconds in all.
C4_TotalWait15 ==
    (ReturnedFalse /\ dl.max_retries = 3 /\ OnlyRaised) =>
        /\ SumWaits(log) = 15
        /\ \A i \in LogIdx("fail") :
              IF log[i].attempt < 2
              THEN log[i + 1].ev = "wait" /\ log[i + 1].n = 5 * (2 ^ log[i].attempt)
              ELSE log[i + 1].ev = "return"

C4_Witness ==
    /\ ReturnedFalse
    /\ dl.max_retries = 3
    /\ OnlyRaised
    /\ Cardinality(LogIdx("fail")) = 3

\* The call was answered only by a server that honours the range request
\* (206 with the bytes asked for), the attempts that got no answer or an
\* error status aside.
RangeHonoured ==
    /\ \A i \in LogIdx("request") : log[i].kind \in {"range", "rangeNoTotal", "neterr", "error"}
    /\ dl.status = 206

\* C5: with a .part file of length k, 0 < k < total, before the call and a
\* server that honours the range request, a successful call leaves a final
\* file of length total: the k bytes that were in the .part file, then the
\* server's bytes k .. total-1.
C5_ResumeKeepsPrefix ==
    LET part == PartPath(dl.output_path)
        k    == FLen(fs0[part])
    IN  (/\ ReturnedTrue
         /\ part \in DOMAIN fs0
         /\ RangeHonoured
         /\ 0 < k /\ k < TotalSize)
        => /\ fs[dl.output_path] = FCat(fs0[part], Bytes(dl.url, k, TotalSize))
           /\ FLen(fs[dl.output_path]) = TotalSize
           /\ FTake(fs[dl.output_path], k) = fs0[part]

\* A resumed transfer that succeeded after a broken first attempt.
C5_Witness ==
    LET part == PartPath(dl.output_path)
    IN  /\ ReturnedTrue
        /\ part \in DOMAIN fs0
        /\ fs0[part] = Bytes(<<"old">>, 0, ChunkSize)
        /\ RangeHonoured
        /\ dl.attempt > 0

\* C6 as stated: an attempt answered with a status other than 200 and 206
\* fails: no byte of the answer is streamed to the .part file and the call
\* does not return True on it.
C6_OtherStatusFails ==
    dl.status \notin {0, 200, 206} => (dl.pc # "stream" /\ ~ReturnedTrue)

----------------------------------------------------------------------------
(* Claims about the download cycles (SpecCycle) *)

\* C7 as stated: between transfers, no target path has its final file and
\* its .part file at the same time.
C7_NeverFinalAndPart ==
    dl.pc = "idle" => \A p \in DOMAIN fs : PartPath(p) \notin DOMAIN fs

\* The item a scan step of a pass looks at, and whether the step queued it.
ScanItem == pass.items[pass.idx]

QueuedNow(output_path) ==
    /\ Len(pass'.downloads) = Len(pass.downloads) + 1
    /\ SubSeq(pass'.downloads, 1, Len(pass.downloads)) = pass.downloads
    /\ pass'.downloads[Len(pass'.downloads)].output_path = output_path
    /\ pass'.downloads[Len(pass'.downloads)].url = ScanItem.url

\* A download_file call begins, for the next item of the queue.
CallsQueued ==
    (dl.pc = "idle" /\ dl'.pc # "idle") =>
        \E i \in DOMAIN pass.downloads :
            /\ dl'.output_path = pass.downloads[i].output_path
            /\ dl'.url = pass.downloads[i].url
            /\ Len(calls') = i

\* The step in which Ctrl+C ends the cycle.
PassInterrupted == pass.pc # "stopped" /\ pass'.pc = "stopped"

\* The step of a pass in which it catches an exception and returns.
PassRaises ==
    /\ Len(pass'.returns) = Len(pass.returns) + 1
    /\ pass'.returns[Len(pass'.returns)].error

\* C8: the scan of download_releases, for an item with a title, a URL and
\* a length that is a number, when no Ctrl+C comes:
\* a final file of at least 99% of the declared size (or any final file,
\* when the declared size is 0) is counted as already-have, the file system
\* is left as it is and the item is not queued; a shorter final file is
\* deleted, counted as incomplete, and the item is queued; with no final
\* file the item is queued.  Transfers start only for queued items.
C8_ReleaseScan ==
    [][/\ CallsQueued
       /\ (pass.pc = "scan" /\ pass.src = "releases" /\ ScanItem.url # <<>> /\ ~PassRaises
                                                    /\ ~PassInterrupted) =>
            LET output_path == <<ReleasesDir, sanitize_filename(ScanItem.title, Mp4, 240)>>
                size        == ScanItem.size
            IN  IF output_path \in DOMAIN fs
                THEN IF size = 0 \/ FLen(fs[output_path]) * 100 >= size * 99
                     THEN /\ pass'.already_have = pass.already_have + 1
                          /\ pass'.incomplete = pass.incomplete
                          /\ pass'.downloads = pass.downloads
                          /\ fs' = fs
                     ELSE /\ pass'.already_have = pass.already_have
                          /\ pass'.incomplete = pass.incomplete + 1
                          /\ QueuedNow(output_path)
                          /\ DOMAIN fs' = (DOMAIN fs) \ {output_path}
                          /\ \A q \in DOMAIN fs' : fs'[q] = fs[q]
                ELSE /\ pass'.already_have = pass.already_have
                     /\ pass'.incomplete = pass.incomplete
                     /\ QueuedNow(output_path)
                     /\ fs' = fs
      ]_vars

\* A scan that found one release complete within the tolerance and, in a
\* later cycle, a release too short, which it deleted and queued.
C8_Witness ==
    /\ pass.src = "releases"
    /\ pass.pc = "download"
    /\ pass.incomplete = 1
    /\ Len(pass.downloads) >= 1
    /\ pass.downloads[1].output_path \notin DOMAIN fs

\* The scan step of download_relive for an item whose title was fetched.
ReliveScanStep == pass.pc = "scan" /\ pass.src = "relive" /\ ReliveTitle(ScanItem.id) # <<>>

\* A pass ends, its download loop run to the end: every queued item was
\* passed to download_file, in order, and nothing else was.
AllQueuedCalled ==
    (pass.pc = "download" /\ pass'.pc \notin {"download", "stopped"}) =>
        /\ Len(calls) = Len(pass.downloads)
        /\ \A i \in DOMAIN calls : calls[i].output_path = pass.downloads[i].output_path

\* C9 as stated: in a scan step that no Ctrl+C cuts short, an item is
\* queued (and so passed to download_file) exactly when no final file exists at its target path and no release matches its
\* title; an item with a matching release is not queued and is counted as
\* has_release.
C9_MatchedCountsAsRelease ==
    [][(ReliveScanStep /\ ~PassInterrupted) =>
         LET title       == ReliveTitle(ScanItem.id)
             output_path == <<ReliveDir, sanitize_filename(title, Mp4, 240)>>
             matched     == MatchingReleases(title, fs) # {}
         IN  /\ QueuedNow(output_path) <=> (output_path \notin DOMAIN fs /\ ~matched)
             /\ matched => /\ pass'.downloads = pass.downloads
                           /\ pass'.has_release = pass.has_release + 1
      ]_vars

\* C9 amended: in a scan step that no Ctrl+C cuts short, an item is queued
\* exactly when, as the scan looks at it, no
\* final file exists at its target path and no release matches its title,
\* and the items passed to download_file are the queued ones; an item with
\* a matching release is never queued, and it is counted as has_release
\* unless its final file exists in the relive directory, when it is counted
\* as already-have.
C9_MatchedNeverDownloaded ==
    [][/\ CallsQueued
       /\ AllQueuedCalled
       /\ (ReliveScanStep /\ ~PassInterrupted) =>
            LET title       == ReliveTitle(ScanItem.id)
                output_path == <<ReliveDir, sanitize_filename(title, Mp4, 240)>>
                matched     == MatchingReleases(title, fs) # {}
                have        == output_path \in DOMAIN fs
            IN  /\ QueuedNow(output_path) <=> (~have /\ ~matched)
                /\ matched => pass'.downloads = pass.downloads
                /\ pass'.has_release = pass.has_release + (IF matched /\ ~have THEN 1 ELSE 0)
                /\ pass'.already_have = pass.already_have + (IF have THEN 1 ELSE 0)
                /\ fs' = fs
      ]_vars

\* A relive pass that skipped its item because a release matches its title.
C9_Witness ==
    /\ pass.src = "releases"
    /\ pass.pc = "fetch"
    /\ pass.has_release = 1
    /\ pass.downloads = <<>>
    /\ calls = <<>>
    /\ \E i \in DOMAIN feed.relive :
         /\ feed.relive[i].title # <<>>
         /\ MatchingReleases(feed.relive[i].title, fs) # {}

\* The final .mp4 files of the relive directory that have a matching release.
Superseded(f) ==
    {p \in DOMAIN f :
        /\ p[1] = ReliveDir
        /\ EndsWith(p[2], Mp4)
        /\ MatchingReleases(p[2], f) # {}}

\* C10: cleanup_relive_duplicates, when no Ctrl+C cuts it short, deletes exactly the final .mp4 files of
\* the relive directory that have a matching release and returns their
\* number; every other file (each release, each .part file) is left as it
\* is; run again at once, it deletes nothing and returns 0.
C10_CleanupExactAndIdempotent ==
    [][(pass.pc = "cleanup" /\ ~PassInterrupted) =>
         /\ DOMAIN fs' = (DOMAIN fs) \ Superseded(fs)
         /\ \A q \in DOMAIN fs' : fs'[q] = fs[q]
         /\ pass'.removed = Cardinality(Superseded(fs))
         /\ \A q \in DOMAIN fs :
              (q[1] = ReleasesDir \/ EndsWith(q[2], PartSuffix)) => q \in DOMAIN fs'
         /\ cleanup_relive_duplicates(fs') = [fs |-> fs', removed |-> 0]
      ]_vars

\* A cleanup that removed a relive file and kept a .part file beside it.
C10_Witness ==
    /\ pass.pc = "done"
    /\ pass.removed = 1
    /\ \E q \in DOMAIN fs : q[1] = ReliveDir /\ EndsWith(q[2], PartSuffix)

\* The number of download_file calls of the pass that returned True.
Succeeded(cs) == Cardinality({i \in DOMAIN cs : cs[i].done /\ cs[i].result})

\* C11: when download_file returns for a queued item, with True or with
\* False after its last attempt, and items are left in the queue, the pass
\* stays in its loop and calls download_file for the next item, with
\* attempt 0 of max_retries = 3; after the last item every queued item was
\* called, and the pass returns the number of calls that returned True.
C11_FailureDoesNotAbortBatch ==
    [][/\ (pass.pc = "download" /\ dl.pc = "returned") =>
            /\ ~dl.result => NumRequests = dl.max_retries
            /\ IF pass.idx < Len(pass.downloads)
               THEN /\ pass'.pc = "download"
                    /\ pass'.idx = pass.idx + 1
                    /\ pass'.downloads = pass.downloads
                    /\ pass'.returns = pass.returns
               ELSE /\ pass'.pc # "download"
                    /\ Len(calls') = Len(pass.downloads)
                    /\ \A i \in DOMAIN calls' : calls'[i].done /\ calls'[i].idx = i
                    /\ pass'.returns = Append(pass.returns,
                           [src |-> pass.src, value |-> Succeeded(calls'), error |-> FALSE])
       /\ (pass.pc = "download" /\ dl.pc = "idle" /\ dl'.pc # "idle") =>
            /\ dl'.pc = "attempt"
            /\ dl'.attempt = 0
            /\ dl'.max_retries = DefaultMaxRetries
            /\ dl'.url = pass.downloads[pass.idx].url
            /\ dl'.output_path = pass.downloads[pass.idx].output_path
            /\ calls'[Len(calls')].idx = pass.idx
      ]_vars

\* The second item of a queue is being transferred, in its first attempt,
\* after the transfer of the first item failed for good.
C11_Witness ==
    /\ pass.pc = "download"
    /\ pass.idx = 2
    /\ Len(calls) = 2
    /\ calls[1].done /\ ~calls[1].result
    /\ dl.pc = "stream"
    /\ dl.attempt = 0

\* Both sources are enabled on the command line.
BothSources == ~args.releases_only /\ ~args.relive_only

\* C12: with both sources enabled, a pass that fails to fetch or to parse
\* its listing returns 0 to the cycle, calls download_file for nothing and
\* does not end the cycle: after the relive pass the releases pass is
\* started, after the releases pass the cycle goes on to its end; a cycle
\* that ends has had the return value of both passes, and a cycle is left
\* early only by a KeyboardInterrupt.
C12_ListingFailureContained ==
    /\ [](pass.pc = "stopped" => pass.raised = "KeyboardInterrupt")
    /\ []((BothSources /\ pass.pc = "done") =>
            /\ Len(pass.returns) = 2
            /\ pass.returns[1].src = "relive"
            /\ pass.returns[2].src = "releases"
            /\ \A i \in 1 .. 2 : pass.returns[i].error => pass.returns[i].value = 0)
    /\ [][(/\ BothSources
           /\ Len(pass'.returns) = Len(pass.returns) + 1
           /\ pass'.returns[Len(pass'.returns)].error) =>
              /\ pass'.returns[Len(pass'.returns)] =
                     [src |-> pass.src, value |-> 0, error |-> TRUE]
              /\ calls' = <<>>
              /\ dl' = IdleFrame
              /\ fs' = fs
              /\ pass.src = "relive" => pass'.pc = "fetch" /\ pass'.src = "releases"
              /\ pass.src = "releases" =>
                     pass'.pc = IF args.no_cleanup THEN "done" ELSE "cleanup"
         ]_vars

\* A cycle in which the relive listing could not be fetched and the
\* releases pass downloaded a file all the same.
C12_Witness ==
    /\ BothSources
    /\ pass.pc = "done"
    /\ pass.returns[1] = [src |-> "relive", value |-> 0, error |-> TRUE]
    /\ pass.returns[2].src = "releases"
    /\ pass.returns[2].value >= 1

\* The place in the remote listing of the item that call i of the pass
\* transfers: a relive item is known by its id, a release by its URL.
ListingIndex(i) ==
    LET d == pass.downloads[calls[i].idx]
    IN  IF pass.src = "relive"
        THEN CHOOSE k \in DOMAIN feed.relive : feed.relive[k].id = d.id
        ELSE CHOOSE k \in DOMAIN feed.releases : feed.releases[k].url = d.url

\* C13 as stated: in a pass of either source, a transfer has returned
\* before the next one starts, and the transfers follow the order of the
\* remote listing.
C13_ListingOrder ==
    pass.pc = "download" =>
        \A i, j \in DOMAIN calls :
            i < j => calls[i].done /\ ListingIndex(i) < ListingIndex(j)

----------------------------------------------------------------------------
(* main: instances of the program for one congress, and its lock *)

\* How many instances of main are started.
NumInstances == 2

Instances == 1 .. NumInstances

\* An instance of main before it is started, with its --clean-partial and
\* --once arguments; once pc is "exited", status is the argument of the
\* sys.exit that ended it, 0 when it ended otherwise, and raised names the
\* exception that escaped main, "" when none did.
Instance(clean_partial, once) ==
    [pc |-> "none", status |-> 0, raised |-> "",
     clean_partial |-> clean_partial, once |-> once]

\* procs.lock is the instance that holds FileLock(config.lock_file), 0 when
\* it is free; procs.dirs says whether the output directories exist.
SetInst(i, pc) == [procs EXCEPT !.inst[i].pc = pc]

\* Mutant: the lock is taken to be free whoever holds it.
LockFree_Always == TRUE

\* No process holds the lock file.
LockFree == procs.lock = 0

\* main up to the lock: the arguments are parsed, the configuration is
\* printed, the FileLock object is made.
MainStart(i) ==
    /\ procs.inst[i].pc = "none"
    /\ procs' = SetInst(i, "acquire")
    /\ UNCHANGED <<fs, dl, log, env, fs0, args, feed, pass, cycles, calls, san>>

\* lock.acquire() returns: the lock was free, or became free within the
\* timeout of one second.
LockAcquire(i) ==
    /\ procs.inst[i].pc = "acquire"
    /\ LockFree
    /\ procs' = [SetInst(i, "locked") EXCEPT !.lock = i]
    /\ UNCHANGED <<fs, dl, log, env, fs0, args, feed, pass, cycles, calls, san>>

\* lock.acquire() raises after the timeout, the lock being held all the
\* while: the error is printed and sys.exit(1) ends the instance.
LockTimeout(i) ==
    /\ procs.inst[i].pc = "acquire"
    /\ ~LockFree
    /\ procs' = [SetInst(i, "exited") EXCEPT !.inst[i].status = 1]
    /\ UNCHANGED <<fs, dl, log, env, fs0, args, feed, pass, cycles, calls, san>>

\* config.ensure_directories(), then the branch on --clean-partial; the
\* frame of run_download_cycle is the one of this instance from here on.
EnsureDirectories(i) ==
    /\ procs.inst[i].pc = "locked"
    /\ procs' = [SetInst(i, IF procs.inst[i].clean_partial THEN "clean" ELSE "loop")
                    EXCEPT !.dirs = TRUE]
    /\ pass' = IdlePass
    /\ calls' = <<>>
    /\ UNCHANGED <<fs, dl, log, env, fs0, args, feed, cycles, san>>

\* cleanup_partial_downloads: every *.part file of the two directories is
\* unlinked.
cleanup_partial_downloads(f) ==
    [p \in {q \in DOMAIN f : ~EndsWith(q[2], PartSuffix)} |-> f[p]]

\* --clean-partial: the .part files are removed and main returns.
CleanPartial(i) ==
    /\ procs.inst[i].pc = "clean"
    /\ fs' = cleanup_partial_downloads(fs)
    /\ procs' = SetInst(i, "release")
    /\ UNCHANGED <<dl, log, env, fs0, args, feed, pass, cycles, calls, san>>

\* The instance that is in `run_download_cycle(config, args)`: with --once
\* one cycle, else cycle after cycle.
InCycle(i) ==
    /\ procs.inst[i].pc = "loop"
    /\ pass.pc # "stopped"
    /\ procs.inst[i].once => pass.pc # "done"

\* main leaves its try block: after the one cycle of --once, or when
\* Ctrl+C ends the loop between two cycles.
MainLeave(i) ==
    /\ procs.inst[i].pc = "loop"
    /\ dl.pc = "idle"
    /\ pass.pc = "done" \/ (~procs.inst[i].once /\ pass.pc = "boot")
    /\ procs' = SetInst(i, "release")
    /\ UNCHANGED <<fs, dl, log, env, fs0, args, feed, pass, cycles, calls, san>>

\* Mutant: a KeyboardInterrupt that escapes main ends the instance at once,
\* the finally clause is skipped.
AfterInterrupt_SkipFinally(once) ==
    IF once THEN [pc |-> "exited", raised |-> "KeyboardInterrupt"]
    ELSE [pc |-> "release", raised |-> ""]

\* Where a KeyboardInterrupt raised in run_download_cycle takes main: in
\* loop mode `except KeyboardInterrupt` catches it and breaks the loop, with
\* --once nothing catches it and it escapes main; the finally clause runs
\* in both cases.
AfterInterrupt(once) ==
    [pc |-> "release", raised |-> IF once THEN "KeyboardInterrupt" ELSE ""]

\* Ctrl+C during the download cycle: the KeyboardInterrupt has left
\* download_file, download_releases and run_download_cycle.
CycleInterrupted(i) ==
    /\ procs.inst[i].pc = "loop"
    /\ pass.pc = "stopped"
    /\ LET a == AfterInterrupt(procs.inst[i].once)
       IN  procs' = [procs EXCEPT !.inst[i].pc = a.pc, !.inst[i].raised = a.raised]
    /\ UNCHANGED <<fs, dl, log, env, fs0, args, feed, pass, cycles, calls, san>>

\* finally: lock.release(); the instance ends, with status 0 unless an
\* exception is on its way out.
LockRelease(i) ==
    /\ procs.inst[i].pc = "release"
    /\ procs' = [SetInst(i, "exited") EXCEPT !.lock = 0]
    /\ UNCHANGED <<fs, dl, log, env, fs0, args, feed, pass, cycles, calls, san>>

\* A step of run_download_cycle --releases-only in an instance that is in
\* its loop.
CycleStep ==
    /\ \E i \in Instances : InCycle(i)
    /\ \/ StartCycle
       \/ FetchReleases
       \/ ScanRelease
       \/ CallDownload
       \/ RequestFails
       \/ RequestStreams
       \/ StreamChunk
       \/ Verify
       \/ ReturnDownload
       \/ Cleanup
       \/ Interrupt
       \/ Abort
       \/ InterruptPass

\* The releases feed of the runs under the lock, and the answers of the
\* remote side: ranges are honoured, nothing fails, Ctrl+C may come during
\* a download.
FeedLock ==
    [relive |-> <<>>, releases |-> <<Item(<<>>, Txt_Intro, <<"r", "1">>, 0)>>]

LockKinds == {"range", "interrupt"}

InitLock ==
    /\ \E havePart \in BOOLEAN :
         fs = IF havePart
              THEN [p \in {PartPath(<<ReleasesDir, <<"x">> \o Mp4>>)} |-> Bytes(<<"old">>, 0, ChunkSize)]
              ELSE [p \in {} |-> <<>>]
    /\ fs0 = fs
    /\ dl = IdleFrame
    /\ log = <<>>
    /\ env = LockKinds
    /\ args = [NoArgs EXCEPT !.releases_only = TRUE]
    /\ feed = FeedLock
    /\ pass = IdlePass
    /\ cycles = 0
    /\ calls = <<>>
    /\ \E c, o \in [Instances -> BOOLEAN] :
         procs = [lock |-> 0, dirs |-> fs # <<>>,
                  inst |-> [i \in Instances |-> Instance(c[i], o[i])]]
    /\ san = NoSan

NextLock ==
    \/ \E i \in Instances :
         \/ MainStart(i)
         \/ LockAcquire(i)
         \/ LockTimeout(i)
         \/ EnsureDirectories(i)
         \/ CleanPartial(i)
         \/ MainLeave(i)
         \/ CycleInterrupted(i)
         \/ LockRelease(i)
    \/ CycleStep

SpecLock == InitLock /\ [][NextLock]_vars

----------------------------------------------------------------------------
(* Claims about the lock (SpecLock) *)

\* The instances that are past lock.acquire() and not yet past
\* lock.release().
PastLock == {i \in Instances : procs.inst[i].pc \in {"locked", "clean", "loop", "release"}}

\* C14: at most one instance is past the acquisition of the lock at any
\* time, and it is the holder; an instance whose lock.acquire() fails
\* exits at once with status 1 and never holds the lock; the directories
\* are created and the files under them are created, changed or deleted
\* only in steps taken while the lock is held, which leave every instance
\* that does not hold it where it is.
C14_OneInstancePastLock ==
    /\ [](/\ Cardinality(PastLock) <= 1
          /\ \A i \in PastLock : procs.lock = i
          /\ \A i \in Instances :
               procs.inst[i].status # 0 =>
                   procs.inst[i].pc = "exited" /\ procs.inst[i].status = 1)
    /\ [][/\ \A i \in Instances :
               (procs.inst[i].pc = "acquire" /\ procs'.inst[i].pc = "exited") =>
                   /\ procs'.inst[i].status = 1
                   /\ procs.lock \notin {0, i}
                   /\ procs'.lock = procs.lock
                   /\ fs' = fs /\ procs'.dirs = procs.dirs
          /\ (fs' # fs \/ procs'.dirs # procs.dirs) =>
               /\ procs.lock # 0
               /\ procs'.lock = procs.lock
               /\ procs.lock \in PastLock
               /\ \A i \in Instances \ {procs.lock} : procs'.inst[i] = procs.inst[i]
         ]_vars

\* One instance downloads under the lock while the other has given up
\* with status 1, in a tree the first one created.
C14_Witness ==
    \E i, j \in Instances :
        /\ procs.lock = i
        /\ procs.inst[i].pc = "loop"
        /\ dl.pc = "stream"
        /\ procs.inst[j].pc = "exited"
        /\ procs.inst[j].status = 1
        /\ procs.dirs

----------------------------------------------------------------------------
(* More claims about the download cycles (SpecCycle) *)

\* C15 as stated: in a run with --dry-run, which starts with empty output
\* directories, download_file is never called and no file comes to be in
\* the relive or the releases directory.
C15_DryRunDownloadsNothing ==
    args.dry_run => (dl.pc = "idle" /\ calls = <<>> /\ DOMAIN fs = {})

----------------------------------------------------------------------------
(* Calls of sanitize_filename *)

\* The longest title, in characters.
MaxTitleLen == 3

\* The characters of the titles: a letter, a slash, a backslash, a colon,
\* a-umlaut (2 bytes) and the em dash (3 bytes).
TitleChars == {"a", "/", "\\", ":", "U+00E4", "U+2014"}

RECURSIVE TextsUpTo(_, _)
TextsUpTo(chars, n) ==
    IF n = 0 THEN {<<>>}
    ELSE LET shorter == TextsUpTo(chars, n - 1)
         IN  shorter \cup {Append(t, c) : t \in shorter, c \in chars}

Titles == TextsUpTo(TitleChars, MaxTitleLen)

\* The extensions of the quality presets that differ in length.
Extensions == {Mp4, <<".", "o", "p", "u", "s">>}

\* max_bytes: smaller than an extension, within 3 of its length, just
\* above, and the default.
MaxBytesValues == {3, 6, 8, 10, DefaultMaxBytes}

InitSan ==
    /\ fs = [p \in {} |-> <<>>]
    /\ fs0 = fs
    /\ dl = IdleFrame
    /\ log = <<>>
    /\ env = {}
    /\ args = NoArgs
    /\ feed = NoFeed
    /\ pass = IdlePass
    /\ cycles = 0
    /\ calls = <<>>
    /\ procs = NoProcs
    /\ \E title \in Titles, extension \in Extensions, max_bytes \in MaxBytesValues :
         san = [pc |-> "call", title |-> title, extension |-> extension,
                max_bytes |-> max_bytes, result |-> <<>>]

\* sanitize_filename(title, extension, max_bytes) returns.
Sanitize ==
    /\ san.pc = "call"
    /\ san' = [san EXCEPT !.pc = "done",
                          !.result = sanitize_filename(san.title, san.extension, san.max_bytes)]
    /\ UNCHANGED <<fs, dl, log, env, fs0, args, feed, pass, cycles, calls, procs>>

NextSan == Sanitize

SpecSan == InitSan /\ [][NextSan]_vars

----------------------------------------------------------------------------
(* Claims about sanitize_filename (SpecSan) *)

\* C16 as stated: for every title, extension and max_bytes, the result is
\* at most max_bytes bytes long in UTF-8 and ends with the extension.
C16_ByteBound ==
    san.pc = "done" =>
        /\ Len(Utf8Encode(san.result)) <= san.max_bytes
        /\ EndsWith(san.result, san.extension)

\* The part of the result that comes before the extension.
NamePart == SubSeq(san.result, 1, Len(san.result) - Len(san.extension))

\* C17 as stated: the result, before its extension, has none of the nine
\* characters / \ : * ? " < > |
C17_NoInvalidChars ==
    san.pc = "done" =>
        \A k \in DOMAIN NamePart :
            NamePart[k] \notin {"/", "\\", ":", "*", "?", "\"", "<", ">", "|"}

----------------------------------------------------------------------------
(* Claims about the counts of a pass (SpecCycle) *)

\* download_releases has returned, without having caught an exception,
\* and the cycle has not gone on yet.
ReleasesReturned ==
    /\ pass.returns # <<>>
    /\ pass.returns[Len(pass.returns)].src = "releases"
    /\ ~pass.returns[Len(pass.returns)].error
    /\ pass.pc \in {"cleanup", "done"}

\* The items of the feed with a title and an enclosure URL.
Usable == {k \in DOMAIN feed.releases : feed.releases[k].url # <<>>}

\* The number of download_file calls of the pass that returned False.
Failed(cs) == Cardinality({i \in DOMAIN cs : cs[i].done /\ ~cs[i].result})

\* C18: when download_releases has returned, every usable item of the feed
\* was counted as already-have or was passed to download_file, which
\* returned True or False for it: already_have + succeeded + failed is the
\* number of usable items; the incomplete items are among those passed on;
\* the value returned is the number of calls that returned True.  With one
\* usable item and no local file, one call is made, and when it succeeds
\* the counts are already_have 0, incomplete 0, downloaded 1, failed 0.
C18_CountsAddUp ==
    ReleasesReturned =>
        /\ pass.already_have + Succeeded(calls) + Failed(calls) = Cardinality(Usable)
        /\ Len(calls) = Len(pass.downloads)
        /\ pass.incomplete <= Len(pass.downloads)
        /\ pass.downloaded = Succeeded(calls)
        /\ pass.returns[Len(pass.returns)].value = Succeeded(calls)
        /\ (Cardinality(Usable) = 1 /\ args.releases_only /\ cycles = 1) =>
              /\ Len(calls) = 1
              /\ pass.already_have = 0
              /\ pass.incomplete = 0
              /\ calls[1].result =>
                    /\ pass.downloaded = 1
                    /\ Failed(calls) = 0
                    /\ calls[1].output_path \in DOMAIN fs

\* The first pass over a feed of one usable item, with nothing on disk,
\* has downloaded it.
C18_Witness ==
    /\ ReleasesReturned
    /\ Cardinality(Usable) = 1 /\ args.releases_only /\ cycles = 1
    /\ pass.already_have = 0
    /\ pass.incomplete = 0
    /\ pass.downloaded = 1
    /\ Failed(calls) = 0

----------------------------------------------------------------------------
(* More claims about one call of download_file (SpecDL) *)

\* The request of the attempt that is under way.
LastRequest ==
    log[CHOOSE i \in LogIdx("request") : \A j \in LogIdx("request") : j <= i]

\* The attempt under way asked for a range from a nonzero offset and was
\* answered with 200.
FullAnswerToRange ==
    /\ dl.pc = "stream"
    /\ dl.status = 200
    /\ LogIdx("request") # {}
    /\ LastRequest.n > 0

\* C19: when a .part file of nonzero length exists and the range request
\* is answered with 200, the old content is discarded: while the body is
\* streamed the .part file holds the part of the body read so far and
\* nothing else, and once the stream is complete it holds exactly the
\* body, whose length is the Content-Length when the body came whole.
C19_FullResponseRestarts ==
    FullAnswerToRange =>
        LET part == PartPath(dl.output_path)
        IN  /\ dl.resume_pos = 0
            /\ \E r \in Responses(dl.url, TRUE, LastRequest.n) :
                 /\ r.status = 200
                 /\ r.kind = LastRequest.kind
                 /\ FCat(fs[part], dl.body) = r.body
                 /\ (dl.body = <<>> /\ r.kind = "full") =>
                        /\ fs[part] = Bytes(dl.url, 0, TotalSize)
                        /\ FLen(fs[part]) = r.clen
                        /\ r.clen = dl.total_size

\* A .part file of one chunk of other content was there, the server
\* answered the range request with 200, and the stream is complete.
C19_Witness ==
    LET part == PartPath(dl.output_path)
    IN  /\ FullAnswerToRange
        /\ dl.body = <<>>
        /\ dl.attempt = 0
        /\ part \in DOMAIN fs0
        /\ fs0[part] = Bytes(<<"old">>, 0, ChunkSize)
        /\ LastRequest.kind = "full"
        /\ fs[part] = Bytes(dl.url, 0, TotalSize)

----------------------------------------------------------------------------
(* Claims about the targets of a pass (SpecCycle) *)

\* C20 as stated: in a pass, for any listing, download_file is never
\* called for a target path at which a final file exists as the call is
\* made, and no target path is passed to it twice.
C20_TargetsFreshAndDistinct ==
    \A i \in DOMAIN calls :
        /\ ~calls[i].final
        /\ \A j \in DOMAIN calls : i # j => calls[i].output_path # calls[j].output_path

----------------------------------------------------------------------------
(* Claims about the order of a cycle (SpecCycle) *)

\* The final .mp4 files of the relive directory that a step deletes.
ReliveFinalsDeleted ==
    {p \in DOMAIN fs : p[1] = ReliveDir /\ EndsWith(p[2], Mp4) /\ p \notin DOMAIN fs'}

\* C21: cleanup_relive_duplicates runs only when releases are processed
\* and --no-cleanup is not set, and only after download_releases of the
\* same cycle has returned, with no transfer under way; a final file of
\* the relive directory is deleted by no other step, so with --relive-only
\* or --no-cleanup none is deleted.
C21_CleanupAfterReleases ==
    /\ [](pass.pc = "cleanup" =>
            /\ ~args.relive_only /\ ~args.no_cleanup
            /\ dl.pc = "idle"
            /\ pass.returns # <<>>
            /\ pass.returns[Len(pass.returns)].src = "releases"
            /\ Len(pass.returns) = IF args.releases_only THEN 1 ELSE 2)
    /\ [][ReliveFinalsDeleted # {} =>
            /\ pass.pc = "cleanup"
            /\ pass'.pc = "done"
            /\ ~args.relive_only /\ ~args.no_cleanup
         ]_vars

\* The cleanup is about to run, after a releases pass that downloaded the
\* release of a talk whose relive file is on disk.
C21_Witness ==
    /\ pass.pc = "cleanup"
    /\ pass.returns[Len(pass.returns)].value >= 1
    /\ Superseded(fs) # {}

----------------------------------------------------------------------------
(* Claims about the attempts of one call (SpecDL) *)

\* Every request of the call so far went to a server that honours range
\* requests, or got no answer or an error page.
HonoursRanges(l) ==
    \A i \in DOMAIN l :
        l[i].ev = "request" => l[i].kind \in {"range", "rangeNoTotal", "neterr", "error"}

\* The .part file of the call.
PartNow == PartPath(dl.output_path)

\* C22: against a server that honours range requests, every attempt asks
\* for the bytes from the length the .part file has as the request is
\* made (no range when there is no .part file); the offsets of successive
\* requests never decrease and the .part file never gets shorter; what an
\* answer 206 still has to deliver starts at the end of the .part file, so
\* no byte on disk is asked for again.
C22_ResumeFromCurrentLength ==
    /\ [](HonoursRanges(log) =>
            /\ \A i, j \in LogIdx("request") : i < j => log[i].n <= log[j].n
            /\ (dl.pc = "stream" /\ dl.status = 206) =>
                   /\ LastRequest.n >= 0
                   /\ dl.body = Bytes(dl.url, FLen(fs[PartNow]), TotalSize))
    /\ [][HonoursRanges(log') =>
            /\ (dl.pc = "attempt" /\ dl'.pc # "interrupted") =>
                   /\ Len(log') > Len(log)
                   /\ log'[Len(log) + 1].ev = "request"
                   /\ log'[Len(log) + 1].n =
                          IF PartNow \in DOMAIN fs THEN FLen(fs[PartNow]) ELSE -1
            /\ (PartNow \in DOMAIN fs /\ PartNow \in DOMAIN fs') =>
                   FLen(fs'[PartNow]) >= FLen(fs[PartNow])
         ]_vars

\* A second attempt resumes at the one chunk that the first attempt, which
\* started without a .part file, wrote before its stream broke.
C22_Witness ==
    LET part == PartPath(dl.output_path)
    IN  /\ HonoursRanges(log)
        /\ part \notin DOMAIN fs0
        /\ dl.pc = "stream"
        /\ dl.status = 206
        /\ dl.attempt = 1
        /\ LastRequest.n = ChunkSize
        /\ fs[part] = Bytes(dl.url, 0, ChunkSize)

----------------------------------------------------------------------------
(* Claims about repeated cycles (SpecCycle) *)

\* pass.cleaned holds the files that cleanup_relive_duplicates has deleted
\* in the cycles of the run so far.

\* C23 as stated: a relive item whose file was deleted by
\* cleanup_relive_duplicates in an earlier cycle is not downloaded again
\* while the release that matched its file name is still in the releases
\* directory.
C23_NoDownloadAfterCleanup ==
    [][(pass.pc = "download" /\ pass.src = "relive" /\ dl.pc = "idle" /\ dl'.pc # "idle") =>
          ~(/\ dl'.output_path \in pass.cleaned
            /\ MatchingReleases(dl'.output_path[2], fs) # {})
      ]_vars

----------------------------------------------------------------------------
(* One pending release, cycle after cycle, against a server that behaves *)

\* The .part files an earlier run may have left: of the server's bytes or
\* of other bytes, of every length from 0 to the full size.
LeftoverParts ==
    {Bytes(src, 0, n) : src \in {UrlDL, <<"old">>},
                        n \in {0, 1, ChunkSize, ChunkSize + 1, TotalSize - 1, TotalSize}}

\* The server answers 206 to a range that starts inside the file, 416 to
\* one that starts at its end or past it, 200 to a request with no range.
ResumeKinds == {"range"}

InitResume ==
    /\ \E havePart \in BOOLEAN, content \in LeftoverParts :
         fs = IF havePart
              THEN [p \in {PartPath(TargetDL)} |-> content]
              ELSE [p \in {} |-> <<>>]
    /\ fs0 = fs
    /\ \E m \in 1 .. MaxRetriesBound :
         /\ dl = Enter(UrlDL, TargetDL, TotalSize, m)
         /\ log = EnterLog(m)
    /\ env = ResumeKinds
    /\ args = NoArgs
    /\ feed = NoFeed
    /\ pass = [IdlePass EXCEPT !.pc = "direct"]
    /\ cycles = 0
    /\ calls = <<>>
    /\ procs = NoProcs
    /\ san = NoSan

\* The next cycle finds no final file and the size the feed declares, the
\* real one, and calls download_file for the item again.
CallAgain ==
    /\ dl.pc = "returned"
    /\ ~dl.result
    /\ ~Exists(dl.output_path)
    /\ dl' = Enter(dl.url, dl.output_path, dl.expected_size, dl.max_retries)
    /\ log' = EnterLog(dl.max_retries)
    /\ fs0' = fs
    /\ UNCHANGED <<fs, env, caller>>

NextResume ==
    \/ RequestFails
    \/ RequestStreams
    \/ StreamChunk
    \/ Verify
    \/ CallAgain

\* Every step that can be taken is taken: attempts and cycles go on.
SpecResume == InitResume /\ [][NextResume]_vars /\ WF_vars(NextResume)

----------------------------------------------------------------------------
(* Claims about repeated transfers of one item (SpecResume) *)

\* C24 as stated: whatever .part file an earlier run left, of any length
\* from 0 to the full size, the item is finalized in the end: the final
\* file comes to exist.
C24_EventuallyFinal == <>(TargetDL \in DOMAIN fs)

----------------------------------------------------------------------------
(* More claims about the lock (SpecLock) *)

\* C25: an instance that acquired the lock gives it up on every way out of
\* main: a step by which an instance past lock.acquire() ends is the
\* release of the lock it holds, and before that step it is in the finally
\* clause, whether it got there from --clean-partial, from the one cycle
\* of --once, from Ctrl+C in loop mode or with a KeyboardInterrupt on its
\* way out of main; an instance that has ended does not hold the lock, and
\* when no instance is past lock.acquire() the lock is free, so that the
\* lock.acquire() of a later instance returns.
C25_LockReleasedOnEveryPath ==
    /\ [](/\ \A i \in Instances :
               procs.inst[i].pc \in {"none", "acquire", "exited"} => procs.lock # i
          /\ PastLock = {} => procs.lock = 0
          /\ \A i \in Instances :
               (procs.inst[i].pc = "acquire" /\ PastLock = {}) => ENABLED LockAcquire(i))
    /\ [][\A i \in Instances :
             (i \in PastLock /\ procs'.inst[i].pc \notin {"locked", "clean", "loop", "release"}) =>
                 /\ procs.inst[i].pc = "release"
                 /\ procs.lock = i
                 /\ procs'.lock = 0
                 /\ procs'.inst[i].pc = "exited"
         ]_vars

\* An instance started with --once was interrupted during its cycle, the
\* KeyboardInterrupt escaped main, and the other instance, started later,
\* holds the lock.
C25_Witness ==
    \E i, j \in Instances :
        /\ i # j
        /\ procs.inst[i].pc = "exited"
        /\ procs.inst[i].once
        /\ procs.inst[i].raised = "KeyboardInterrupt"
        /\ procs.inst[j].pc = "locked"
        /\ procs.lock = j

====
